---- MODULE Spec2Model ----
(***************************************************************************)
(* OwlPath (StackIt) back end: the vote toggle (votes/models.py,           *)
(* votes/views.py), the vote notification receiver (notifications/) and    *)
(* the reputation ledger (core/models.py ReputationTransaction.save).      *)
(*                                                                         *)
(* Seven specifications share the state:                                   *)
(*   Spec        request handlers of the vote endpoints, interleaved at    *)
(*               the database statements of Vote.toggle_vote;              *)
(*   SeqSpec     Vote.toggle_vote called one call after the other;         *)
(*   LedgerSpec  ReputationTransaction creations, interleaved at the       *)
(*               statements of ReputationTransaction.save.                 *)
(*   PushSpec    LedgerSpec with WebSocket connections of                  *)
(*               realtime/consumers.py NotificationConsumer;               *)
(*   EventSpec   the vote, answer, accept-answer and mark-read operations  *)
(*               with their post_save receivers, one at a time;            *)
(*   ConnectSpec connect, subscribe and disconnect of the four WebSocket   *)
(*               consumers over a table of stored notifications;           *)
(*   WsSpec      WebSocket connections together with vote requests and     *)
(*               the channel layer messages they publish.                  *)
(***************************************************************************)
EXTENDS Integers, Sequences, FiniteSets, TLC

\* ------------------------------------------------------------------ bounds
\* Vote requests started under Spec.
MaxOps == 3
\* toggle_vote calls made under SeqSpec.
MaxSeqCalls == 4
\* ReputationTransaction creations started under LedgerSpec.
MaxTx == 2
\* WebSocket connections opened under PushSpec.
MaxWsOps == 2
\* Operations made under EventSpec.
MaxEvents == 3

\* ------------------------------------------------------------- the entities
Users == {"alice", "bob"}
\* One question (asked by alice) and one answer to it (written by bob).
Questions == {"q1"}
Answers == {"a1"}
Targets == Questions \cup Answers
\* Answer ids: a1, and a2 for an answer posted later.
AnswerIds == {"a1", "a2"}
Author(t) == IF t = "q1" THEN "alice" ELSE "bob"
\* Request-handling threads.
Procs == {"p1", "p2"}
OtherProc(p) == IF p = "p1" THEN "p2" ELSE "p1"

\* Vote.VOTE_CHOICES
VOTE_CHOICES == {1, -1}
\* KeyValue's answer for "no Vote row".
NoVote == 0
\* An empty cache slot.
NoCache == 99
\* users.reputation CHECK constraint (reputation >= -1000).
RepFloor == -1000
\* Reputation of a new user (User.reputation default).
InitRep == 0

VARIABLES
    votes,          \* table votes: set of rows [id, user, target, value]
    nextVoteId,     \* the table's auto-increment
    cache,          \* cache key question_<pk>_vote_score per question
    notifications,  \* table notifications, in creation order
    pc,             \* per request thread: "idle" | "act" | "respond"
    call,           \* per request thread: the toggle_vote call in progress
    resp,           \* per request thread: the last HTTP response
    ops,            \* vote requests started
    trace,          \* SeqSpec: the toggle_vote calls made so far
    reputation,     \* users.reputation column
    ledger,         \* table reputation_transactions, in creation order
    repWrites,      \* committed UPDATEs of users.reputation made by the ledger
    published,      \* reputation_changed events handed to the channel layer
    lpc,            \* per ledger thread: position inside the creation
    tx,             \* per ledger thread: the transaction being created
    rowLock,        \* per user: thread holding the row lock of an open transaction
    txStarted,      \* creations started
    anyFail,        \* some creation ended in an exception
    lastError,      \* the exception the last failed creation raised, "" if none
    conns,          \* per WebSocket connection: its user, "" when closed
    members,        \* channel layer groups: pairs <<group, connection>>
    sent,           \* per connection: the messages sent to the client
    wsOps,          \* connections opened
    ckind,          \* per connection: the consumer class serving it
    closeCode,      \* per connection: the code of its last close, 0 if none
    answers,        \* table answers: id -> [exists, author, is_accepted]
    question,       \* row of q1: [accepted_answer, is_answered]
    qinst,          \* a Question instance a caller keeps between calls
    ev,             \* EventSpec: the last operation, with what it observed
    events          \* EventSpec: operations made

voteVars == <<votes, nextVoteId, cache, notifications, pc, call, resp, ops, trace>>
ledgerVars == <<reputation, ledger, repWrites, published, lpc, tx, rowLock, txStarted, anyFail,
               lastError>>
wsVars == <<conns, members, sent, wsOps, ckind, closeCode>>
eventVars == <<answers, question, qinst, ev, events>>
vars == <<votes, nextVoteId, cache, notifications, pc, call, resp, ops, trace,
          reputation, ledger, repWrites, published, lpc, tx, rowLock, txStarted, anyFail,
          lastError, conns, members, sent, wsOps, ckind, closeCode, answers, question, qinst, ev, events>>

\* ------------------------------------------------------------ vote table
\* cls.objects.get(user, content_type, object_id): the matching rows.
VoteRows(tbl, u, t) == {r \in tbl : r.user = u /\ r.target = t}

\* The value of u's vote on t, NoVote when there is no row.
KeyValue(tbl, u, t) ==
    IF VoteRows(tbl, u, t) = {} THEN NoVote
    ELSE (CHOOSE r \in VoteRows(tbl, u, t) : TRUE).value

\* unique_together = [user, content_type, object_id]: would inserting a row
\* for (u, t) violate it?
UniqueViolationMut(tbl, u, t) == FALSE
UniqueViolation(tbl, u, t) == VoteRows(tbl, u, t) # {}

RECURSIVE SumValues(_)
SumValues(S) ==
    IF S = {} THEN 0
    ELSE LET r == CHOOSE x \in S : TRUE IN r.value + SumValues(S \ {r})

\* self.votes.aggregate(Sum("value")) or 0
ScoreAggregate(tbl, t) == SumValues({r \in tbl : r.target = t})

\* Question.vote_score (cached for 300 s) / Answer.vote_score (not cached).
vote_score(tbl, c, t) ==
    IF t \in Questions /\ c[t] # NoCache THEN c[t] ELSE ScoreAggregate(tbl, t)

\* The cache after reading vote_score of t.
CacheAfterRead(tbl, c, t) ==
    IF t \in Questions /\ c[t] = NoCache
    THEN [c EXCEPT ![t] = ScoreAggregate(tbl, t)]
    ELSE c

\* ---------------------------------------------------------- notifications
\* notify_vote: the notification type, from the target kind and the value.
NotificationType(t, v) ==
    IF t \in Answers
    THEN (IF v = 1 THEN "answer_upvoted" ELSE "answer_downvoted")
    ELSE (IF v = 1 THEN "question_upvoted" ELSE "question_downvoted")

\* vote_created (post_save of Vote) -> notify_vote -> create_notification.
vote_createdMut(ns, created, u, t, v) ==
    IF created
    THEN Append(ns, [recipient |-> Author(t), sender |-> u,
                     type |-> NotificationType(t, v), is_read |-> FALSE])
    ELSE ns
vote_created(ns, created, u, t, v) ==
    IF created /\ Author(t) # u
    THEN Append(ns, [recipient |-> Author(t), sender |-> u,
                     type |-> NotificationType(t, v), is_read |-> FALSE])
    ELSE ns

\* ------------------------------------------------------------ toggle_vote
\* The statement toggle_vote runs after its get(): delete, save or create.
\* found = 0 when get() raised DoesNotExist. The result is
\* [votes, nextId, created, error, ret]; ret is the value of the returned
\* vote, NoVote for None.
DeleteRowMut(tbl, id) == tbl
DeleteRow(tbl, id) == {r \in tbl : r.id # id}

\* vote.save() of a loaded row: UPDATE by pk; when no row was updated, INSERT
\* with that pk.
SaveRowMut(tbl, nid, id, u, t, v) ==
    [votes |-> DeleteRow(tbl, id) \cup
                 {[id |-> nid, user |-> u, target |-> t, value |-> v]},
     nextId |-> nid + 1, created |-> TRUE, error |-> FALSE, ret |-> v]
SaveRow(tbl, nid, id, u, t, v) ==
    IF \E r \in tbl : r.id = id
    THEN [votes |-> {IF r.id = id THEN [r EXCEPT !.value = v] ELSE r : r \in tbl},
          nextId |-> nid, created |-> FALSE, error |-> FALSE, ret |-> v]
    ELSE IF UniqueViolation(tbl, u, t)
    THEN [votes |-> tbl, nextId |-> nid, created |-> FALSE, error |-> TRUE,
          ret |-> NoVote]
    ELSE [votes |-> tbl \cup {[id |-> id, user |-> u, target |-> t, value |-> v]},
          nextId |-> nid, created |-> TRUE, error |-> FALSE, ret |-> v]

\* cls.objects.create(...): INSERT, IntegrityError on the unique constraint.
CreateRow(tbl, nid, u, t, v) ==
    IF UniqueViolation(tbl, u, t)
    THEN [votes |-> tbl, nextId |-> nid, created |-> FALSE, error |-> TRUE,
          ret |-> NoVote]
    ELSE [votes |-> tbl \cup {[id |-> nid, user |-> u, target |-> t, value |-> v]},
          nextId |-> nid + 1, created |-> TRUE, error |-> FALSE, ret |-> v]

ToggleWrite(tbl, nid, found, foundValue, u, t, v) ==
    IF found # 0
    THEN IF foundValue = v
         THEN [votes |-> DeleteRow(tbl, found), nextId |-> nid,
               created |-> FALSE, error |-> FALSE, ret |-> NoVote]
         ELSE SaveRow(tbl, nid, found, u, t, v)
    ELSE CreateRow(tbl, nid, u, t, v)

\* The row get() returns: its id and value, 0 for DoesNotExist.
FoundId(tbl, u, t) ==
    IF VoteRows(tbl, u, t) = {} THEN 0
    ELSE (CHOOSE r \in VoteRows(tbl, u, t) : TRUE).id

\* BusinessRuleValidator.validate_vote_eligibility raises for (u, t). No vote
\* code path calls it.
validate_vote_eligibility(u, t) == Author(t) = u

\* A call in progress. base, cnt and other observe the calls that overlap on
\* one (user, target): the vote when the first of them began, how many they
\* are, and the value the overlapping call asked for.
NoCall == [user |-> "", target |-> "", value |-> 0, found |-> 0, foundValue |-> 0,
           ret |-> 0, base |-> 0, cnt |-> 0, other |-> 0]
NoResp == [status |-> 0, user |-> "", target |-> "", vote_value |-> 0,
           vote_score |-> 0]

\* ------------------------------------------- the channel layer and sockets
\* WebSocket connections (channel names); each is opened once.
Conns == {"c1", "c2", "c3"}
\* scope["user"] of a connection: a user, or AnonymousUser.
Anonymous == "anon"
\* user.is_authenticated (for notifications.NotificationConsumer: not an
\* instance of AnonymousUser).
is_authenticatedMut(u) == TRUE
is_authenticated(u) == u # Anonymous
\* Group names.
notification_group(u) == <<"notifications", u>>
global_group == <<"global_updates", "">>
\* f"{instance.__class__.__name__.lower()}_updates" for a ReputationTransaction
reputation_updates_group == <<"reputationtransaction_updates", "">>
question_group(q) == <<"question", q>>
admin_group == <<"admin_monitoring", "">>

\* channel_layer.group_send(group, msg): msg is handed to every channel that
\* is a member of the group, and to no other.
GroupSend(snt, mem, group, msg) ==
    [c \in Conns |-> IF <<group, c>> \in mem THEN Append(snt[c], msg) ELSE snt[c]]

\* Notification.objects.filter(recipient=u, is_read=False): the positions of
\* u's unread rows.
unread_notifications(ns, u) ==
    {i \in DOMAIN ns : ns[i].recipient = u /\ ~ns[i].is_read}

\* [:10] of get_pending_notifications.
PendingLimit == 10

\* The ids of a set, largest first.
RECURSIVE NewestFirst(_)
NewestFirst(S) ==
    IF S = {} THEN <<>>
    ELSE LET m == CHOOSE x \in S : \A y \in S : y <= x
         IN <<m>> \o NewestFirst(S \ {m})

\* NotificationConsumer.get_pending_notifications: the ids of the user's
\* unread notifications, order_by("-created_at")[:10]. A notification's id
\* is its position in the table, which is its order of creation.
get_pending_notificationsMut(ns, u) ==
    NewestFirst({i \in DOMAIN ns : ns[i].recipient = u /\ ~ns[i].is_read})
get_pending_notifications(ns, u) ==
    LET all == NewestFirst({i \in DOMAIN ns : ns[i].recipient = u /\ ~ns[i].is_read})
    IN IF Len(all) > PendingLimit THEN SubSeq(all, 1, PendingLimit) ELSE all

NoQinst == [held |-> FALSE, accepted_answer |-> "", hasPrev |-> FALSE, prev |-> ""]
NoEv == [kind |-> "none", user |-> "", target |-> "", value |-> 0, status |-> 0,
         pushFailed |-> FALSE, reply |-> "", before |-> <<>>]

SameKeyInFlight(q, u, t) ==
    pc[q] = "act" /\ call[q].user = u /\ call[q].target = t

InitRest ==
    /\ votes = {}
    /\ nextVoteId = 1
    /\ cache = [q \in Questions |-> NoCache]
    /\ pc = [p \in Procs |-> "idle"]
    /\ call = [p \in Procs |-> NoCall]
    /\ resp = [p \in Procs |-> NoResp]
    /\ ops = 0
    /\ trace = <<>>
    /\ reputation = [u \in Users |-> InitRep]
    /\ ledger = <<>>
    /\ repWrites = <<>>
    /\ published = <<>>
    /\ lpc = [p \in Procs |-> "idle"]
    /\ tx = [p \in Procs |-> [user |-> "", amount |-> 0, atomic |-> FALSE,
                               local |-> 0]]
    /\ rowLock = [u \in Users |-> ""]
    /\ txStarted = 0
    /\ anyFail = FALSE
    /\ lastError = ""
    /\ conns = [c \in Conns |-> ""]
    /\ members = {}
    /\ sent = [c \in Conns |-> <<>>]
    /\ wsOps = 0
    /\ ckind = [c \in Conns |-> ""]
    /\ closeCode = [c \in Conns |-> 0]
    /\ answers = [a \in AnswerIds |->
                    [exists |-> a \in Answers, author |-> IF a \in Answers THEN Author(a) ELSE "",
                     is_accepted |-> FALSE]]
    /\ question = [accepted_answer |-> "", is_answered |-> FALSE]
    /\ qinst = NoQinst
    /\ ev = NoEv
    /\ events = 0

Init ==
    /\ notifications = <<>>
    /\ InitRest

\* --------------------------------------------- Spec: the vote endpoints
\* QuestionVoteView.post / AnswerVoteView.post up to toggle_vote's get():
\* the request of user u with a valid value v on target t.
Get(p, u, t, v) ==
    /\ pc[p] = "idle"
    /\ ops < MaxOps
    /\ LET q == OtherProc(p)
           joined == SameKeyInFlight(q, u, t)
       IN call' = [call EXCEPT
                ![p] = [user |-> u, target |-> t, value |-> v,
                        found |-> FoundId(votes, u, t),
                        foundValue |-> KeyValue(votes, u, t),
                        ret |-> 0,
                        base |-> IF joined THEN call[q].base
                                 ELSE KeyValue(votes, u, t),
                        cnt |-> IF joined THEN call[q].cnt + 1 ELSE 1,
                        other |-> IF joined THEN call[q].value ELSE 0],
                ![q] = IF joined
                       THEN [call[q] EXCEPT !.cnt = @ + 1, !.other = v]
                       ELSE call[q]]
    /\ pc' = [pc EXCEPT ![p] = "act"]
    /\ ops' = ops + 1
    /\ UNCHANGED <<votes, nextVoteId, cache, notifications, resp, trace>>
    /\ UNCHANGED ledgerVars
    /\ UNCHANGED <<wsVars, eventVars>>

\* toggle_vote after its get(): the delete, save or create, with the
\* post_save receiver. An IntegrityError leaves the view as a 500 response.
Act(p) ==
    /\ pc[p] = "act"
    /\ LET c == call[p]
           w == ToggleWrite(votes, nextVoteId, c.found, c.foundValue,
                            c.user, c.target, c.value)
       IN /\ votes' = w.votes
          /\ nextVoteId' = w.nextId
          /\ notifications' =
                 vote_created(notifications, w.created, c.user, c.target, c.value)
          /\ IF w.error
             THEN /\ pc' = [pc EXCEPT ![p] = "idle"]
                  /\ call' = [call EXCEPT ![p] = NoCall]
                  /\ resp' = [resp EXCEPT ![p] =
                         [status |-> 500, user |-> c.user, target |-> c.target,
                          vote_value |-> 0, vote_score |-> 0]]
             ELSE /\ pc' = [pc EXCEPT ![p] = "respond"]
                  /\ call' = [call EXCEPT ![p].ret = w.ret]
                  /\ resp' = resp
    /\ UNCHANGED <<cache, ops, trace>>
    /\ UNCHANGED ledgerVars
    /\ UNCHANGED <<wsVars, eventVars>>

\* The view's Response: vote.value (when a vote was returned) and the
\* target's vote_score.
Respond(p) ==
    /\ pc[p] = "respond"
    /\ resp' = [resp EXCEPT ![p] =
           [status |-> 200, user |-> call[p].user, target |-> call[p].target,
            vote_value |-> call[p].ret,
            vote_score |-> vote_score(votes, cache, call[p].target)]]
    /\ cache' = CacheAfterRead(votes, cache, call[p].target)
    /\ pc' = [pc EXCEPT ![p] = "idle"]
    /\ call' = [call EXCEPT ![p] = NoCall]
    /\ UNCHANGED <<votes, nextVoteId, notifications, ops, trace>>
    /\ UNCHANGED ledgerVars
    /\ UNCHANGED <<wsVars, eventVars>>

\* The 300 s timeout of the cached vote score passes.
CacheExpire(q) ==
    /\ cache[q] # NoCache
    /\ cache' = [cache EXCEPT ![q] = NoCache]
    /\ UNCHANGED <<votes, nextVoteId, notifications, pc, call, resp, ops, trace>>
    /\ UNCHANGED ledgerVars
    /\ UNCHANGED <<wsVars, eventVars>>

Next ==
    \/ \E p \in Procs, u \in Users, t \in Targets, v \in VOTE_CHOICES : Get(p, u, t, v)
    \/ \E p \in Procs : Act(p)
    \/ \E p \in Procs : Respond(p)
    \/ \E q \in Questions : CacheExpire(q)

Spec == Init /\ [][Next]_vars

\* ------------------------------ SeqSpec: toggle_vote, one call at a time
\* What trace keeps of a call: the vote and the target's score before and
\* after it, the row ids, and the ledger's length before it.
TraceKeep(tr, e) == IF Len(tr) < 2 THEN Append(tr, e) ELSE <<tr[2], e>>

\* Vote.toggle_vote(user, content_object, vote_value), get() to return.
ToggleVoteCall(u, t, v) ==
    /\ ops < MaxSeqCalls
    /\ \A p \in Procs : pc[p] = "idle"
    /\ LET w == ToggleWrite(votes, nextVoteId, FoundId(votes, u, t),
                            KeyValue(votes, u, t), u, t, v)
       IN /\ votes' = w.votes
          /\ nextVoteId' = w.nextId
          /\ notifications' = vote_created(notifications, w.created, u, t, v)
          /\ trace' = TraceKeep(trace,
                 [kind |-> "toggle", user |-> u, target |-> t, value |-> v,
                  error |-> w.error, ret |-> w.ret,
                  before |-> KeyValue(votes, u, t),
                  idBefore |-> FoundId(votes, u, t),
                  idAfter |-> FoundId(w.votes, u, t),
                  scoreBefore |-> vote_score(votes, cache, t),
                  scoreAfter |-> vote_score(w.votes, cache, t),
                  txBefore |-> Len(ledger)])
    /\ ops' = ops + 1
    /\ UNCHANGED <<cache, pc, call, resp>>
    /\ UNCHANGED ledgerVars
    /\ UNCHANGED <<wsVars, eventVars>>

\* Some reader (a serializer, a consumer's snapshot) evaluates vote_score.
ReadVoteScore(t) ==
    /\ ops < MaxSeqCalls
    /\ cache' = CacheAfterRead(votes, cache, t)
    /\ trace' = TraceKeep(trace,
           [kind |-> "read", user |-> "", target |-> t, value |-> 0,
            error |-> FALSE, ret |-> 0, before |-> 0, idBefore |-> 0,
            idAfter |-> 0,
            scoreBefore |-> vote_score(votes, cache, t),
            scoreAfter |-> vote_score(votes, cache, t),
            txBefore |-> Len(ledger)])
    /\ ops' = ops + 1
    /\ UNCHANGED <<votes, nextVoteId, notifications, pc, call, resp>>
    /\ UNCHANGED ledgerVars
    /\ UNCHANGED <<wsVars, eventVars>>

\* The cached score times out between two calls.
SeqCacheExpire(q) ==
    /\ cache[q] # NoCache
    /\ cache' = [cache EXCEPT ![q] = NoCache]
    /\ trace' = TraceKeep(trace,
           [kind |-> "expire", user |-> "", target |-> q, value |-> 0,
            error |-> FALSE, ret |-> 0, before |-> 0, idBefore |-> 0,
            idAfter |-> 0, scoreBefore |-> 0, scoreAfter |-> 0,
            txBefore |-> Len(ledger)])
    /\ UNCHANGED <<votes, nextVoteId, notifications, pc, call, resp, ops>>
    /\ UNCHANGED ledgerVars
    /\ UNCHANGED <<wsVars, eventVars>>

SeqNext ==
    \/ \E u \in Users, t \in Targets, v \in VOTE_CHOICES : ToggleVoteCall(u, t, v)
    \/ \E t \in Targets : ReadVoteScore(t)
    \/ \E q \in Questions : SeqCacheExpire(q)

SeqSpec == Init /\ [][SeqNext]_vars

\* ------------------------------------- LedgerSpec: the reputation ledger
\* ReputationTransaction.TRANSACTION_TYPES: the amounts of the vote types.
QuestionUpvote == 5
AnswerUpvote == 10
QuestionDownvote == -2
AnswerDownvote == -2
\* answer_accepted (Question.accept_answer), a downvote, a penalty that
\* reaches the floor of the CHECK constraint.
Amounts == {15, -2, -1000}

NoTx == [user |-> "", amount |-> 0, atomic |-> FALSE, local |-> 0]

\* The caller obtains a User instance (answer.author, request.user): a copy
\* of the row as it is now.
LoadUser(p, u) ==
    /\ lpc[p] = "idle"
    /\ txStarted < MaxTx
    /\ tx' = [tx EXCEPT ![p] = [user |-> u, amount |-> 0, atomic |-> FALSE,
                                local |-> reputation[u]]]
    /\ lpc' = [lpc EXCEPT ![p] = "loaded"]
    /\ txStarted' = txStarted + 1
    /\ UNCHANGED <<reputation, ledger, repWrites, published, rowLock, anyFail, lastError>>
    /\ UNCHANGED voteVars
    /\ UNCHANGED <<wsVars, eventVars>>

\* The end of a creation that raised: an open transaction.atomic() block
\* rolls back and releases the row lock; autocommitted writes stay.
Abort(p, err) ==
    /\ lastError' = err
    /\ lpc' = [lpc EXCEPT ![p] = "idle"]
    /\ tx' = [tx EXCEPT ![p] = NoTx]
    /\ rowLock' = [u \in Users |-> IF rowLock[u] = p THEN "" ELSE rowLock[u]]
    /\ anyFail' = TRUE

\* The value user.save(update_fields=["reputation"]) writes: the instance's
\* reputation plus the amount.
NewBalance(local, stored, amt) == local + amt

\* CheckConstraint reputation_minimum_check, evaluated by the UPDATE on the
\* value it writes.
reputation_minimum_checkMut(new) == TRUE
reputation_minimum_check(new) == new >= RepFloor

\* ReputationTransaction.save, lines 69-71, for a creation of amount amt;
\* atomic: the caller holds transaction.atomic() (Question.accept_answer).
\* The UPDATE waits for the row lock of another open transaction and raises
\* IntegrityError on the CHECK constraint.
SaveUser(p, amt, atomic) ==
    /\ lpc[p] = "loaded"
    /\ rowLock[tx[p].user] \in {"", p}
    /\ LET u == tx[p].user
           new == NewBalance(tx[p].local, reputation[u], amt)
       IN IF ~reputation_minimum_check(new)
          THEN /\ Abort(p, "IntegrityError")
               /\ UNCHANGED <<reputation, repWrites>>
          ELSE /\ tx' = [tx EXCEPT ![p] = [user |-> u, amount |-> amt,
                                           atomic |-> atomic, local |-> new]]
               /\ lpc' = [lpc EXCEPT ![p] = "publish"]
               /\ IF atomic
                  THEN /\ rowLock' = [rowLock EXCEPT ![u] = p]
                       /\ UNCHANGED <<reputation, repWrites>>
                  ELSE /\ reputation' = [reputation EXCEPT ![u] = new]
                       /\ repWrites' = Append(repWrites, [user |-> u, value |-> new])
                       /\ UNCHANGED rowLock
               /\ UNCHANGED <<anyFail, lastError>>
    /\ UNCHANGED <<ledger, published, txStarted>>
    /\ UNCHANGED voteVars
    /\ UNCHANGED <<wsVars, eventVars>>

\* trigger_realtime_update("reputation_changed", ...): group_send succeeds.
Publish(p) ==
    /\ lpc[p] = "publish"
    /\ published' = Append(published,
           [user_id |-> tx[p].user, new_reputation |-> tx[p].local,
            change |-> tx[p].amount])
    /\ sent' = GroupSend(sent, members, reputation_updates_group,
                         [type |-> "realtime_update", event_type |-> "reputation_changed",
                          user_id |-> tx[p].user, new_reputation |-> tx[p].local,
                          change |-> tx[p].amount])
    /\ lpc' = [lpc EXCEPT ![p] = "insert"]
    /\ UNCHANGED <<reputation, ledger, repWrites, tx, rowLock, txStarted, anyFail, lastError>>
    /\ UNCHANGED voteVars
    /\ UNCHANGED <<conns, members, wsOps, ckind, closeCode, eventVars>>

\* group_send raises (the channel layer's backend is unreachable): save()
\* has no handler, the exception leaves it before super().save().
PublishFails(p) ==
    /\ lpc[p] = "publish"
    /\ Abort(p, "ConnectionError")
    /\ UNCHANGED <<reputation, ledger, repWrites, published, txStarted>>
    /\ UNCHANGED voteVars
    /\ UNCHANGED <<wsVars, eventVars>>

\* super().save(): the INSERT of the transaction row; with it the atomic
\* block of the caller ends and commits both writes.
InsertRow(p) ==
    /\ lpc[p] = "insert"
    /\ LET u == tx[p].user
       IN /\ ledger' = Append(ledger, [user |-> u, amount |-> tx[p].amount,
                                       balance_after |-> tx[p].local])
          /\ IF tx[p].atomic
             THEN /\ reputation' = [reputation EXCEPT ![u] = tx[p].local]
                  /\ repWrites' = Append(repWrites, [user |-> u, value |-> tx[p].local])
                  /\ rowLock' = [rowLock EXCEPT ![u] = ""]
             ELSE UNCHANGED <<reputation, repWrites, rowLock>>
    /\ lpc' = [lpc EXCEPT ![p] = "idle"]
    /\ tx' = [tx EXCEPT ![p] = NoTx]
    /\ UNCHANGED <<published, txStarted, anyFail, lastError>>
    /\ UNCHANGED voteVars
    /\ UNCHANGED <<wsVars, eventVars>>

\* The INSERT raises (a content_type_id without a ContentType row, a
\* description longer than the column).
InsertFails(p) ==
    /\ lpc[p] = "insert"
    /\ Abort(p, "DatabaseError")
    /\ UNCHANGED <<reputation, ledger, repWrites, published, txStarted>>
    /\ UNCHANGED voteVars
    /\ UNCHANGED <<wsVars, eventVars>>

LedgerNext ==
    \/ \E p \in Procs, u \in Users : LoadUser(p, u)
    \/ \E p \in Procs, a \in Amounts, at \in BOOLEAN : SaveUser(p, a, at)
    \/ \E p \in Procs : Publish(p)
    \/ \E p \in Procs : PublishFails(p)
    \/ \E p \in Procs : InsertRow(p)
    \/ \E p \in Procs : InsertFails(p)

LedgerSpec == Init /\ [][LedgerNext]_vars

\* ------------------------------- PushSpec: the ledger and open WebSockets
\* A channel name is generated for each connection attempt: c is the next
\* name, none having been made with it and all earlier names being taken.
ConnIndex(c) == CASE c = "c1" -> 1 [] c = "c2" -> 2 [] OTHER -> 3
Used(c) == conns[c] # "" \/ closeCode[c] # 0
Unused(c) == ~Used(c) /\ \A d \in Conns : ConnIndex(d) < ConnIndex(c) => Used(d)

\* NotificationConsumer.connect (realtime/consumers.py): an anonymous scope is
\* closed with 4001 before any group is joined; a user's connection joins its
\* personal group and global_updates, is accepted, and is sent
\* connection_established and, when there are any, the pending notifications.
WsConnect(c, u) ==
    /\ Unused(c)
    /\ wsOps < MaxWsOps
    /\ wsOps' = wsOps + 1
    /\ IF ~is_authenticated(u)
       THEN /\ closeCode' = [closeCode EXCEPT ![c] = 4001]
            /\ sent' = [sent EXCEPT ![c] = <<>>]
            /\ UNCHANGED <<conns, members, ckind>>
       ELSE /\ conns' = [conns EXCEPT ![c] = u]
            /\ ckind' = [ckind EXCEPT ![c] = "NotificationConsumer"]
            /\ closeCode' = [closeCode EXCEPT ![c] = 0]
            /\ members' = members \cup {<<notification_group(u), c>>, <<global_group, c>>}
            /\ LET pend == get_pending_notifications(notifications, u)
                   hello == <<[type |-> "connection_established"]>>
               IN sent' = [sent EXCEPT ![c] =
                      IF pend = <<>> THEN hello
                      ELSE Append(hello, [type |-> "pending_notifications",
                                          notifications |-> pend,
                                          count |-> Len(pend)])]
    /\ UNCHANGED voteVars
    /\ UNCHANGED ledgerVars
    /\ UNCHANGED eventVars

\* The groups the disconnect() of a consumer class discards for connection
\* c of user u: NotificationConsumer its personal and the global group,
\* notifications.NotificationConsumer its personal group, QuestionConsumer
\* its question group, AdminMonitoringConsumer the admin group.
Discarded(c) ==
    CASE ckind[c] = "NotificationConsumer" ->
             {<<notification_group(conns[c]), c>>, <<global_group, c>>}
      [] ckind[c] = "notifications.NotificationConsumer" ->
             {<<notification_group(conns[c]), c>>}
      [] ckind[c] = "QuestionConsumer" ->
             {m \in members : m[2] = c /\ m[1][1] = "question"}
      [] ckind[c] = "AdminMonitoringConsumer" -> {<<admin_group, c>>}
      [] OTHER -> {}

\* disconnect() of the connection's consumer, after the client or the server
\* closed the socket (code 1000).
WsDisconnect(c) ==
    /\ conns[c] # ""
    /\ conns' = [conns EXCEPT ![c] = ""]
    /\ members' = members \ Discarded(c)
    /\ sent' = [sent EXCEPT ![c] = <<>>]
    /\ closeCode' = [closeCode EXCEPT ![c] = 1000]
    /\ UNCHANGED <<wsOps, ckind>>
    /\ UNCHANGED voteVars
    /\ UNCHANGED ledgerVars
    /\ UNCHANGED eventVars

PushNext ==
    \/ LedgerNext
    \/ \E c \in Conns, u \in Users \cup {Anonymous} : WsConnect(c, u)
    \/ \E c \in Conns : WsDisconnect(c)

PushSpec == Init /\ [][PushNext]_vars

\* ------------------- WsSpec: the consumers, the vote endpoint and pushes
\* User.role and User.is_suspended of the identities that try the admin
\* socket: root is an admin, mallory a suspended admin, the others users.
AdminIdentities == {"root", "mallory"}
role(u) == IF u \in AdminIdentities THEN "admin" ELSE "user"
is_suspended(u) == u = "mallory"
\* User.is_admin_user
is_admin_userMut(u) == TRUE
is_admin_user(u) == role(u) = "admin" /\ ~is_suspended(u)

\* Question ids a client can name: q1, and q2 with no Question row.
QuestionIds == {"q1", "q2"}

\* Unread backlogs the notification table can hold when the sockets are
\* looked at: none; a mixed one; one with more than PendingLimit unread
\* notifications of alice (bob's votes on q1, alice's vote on a1).
NotifOf(r, s, ty, read) == [recipient |-> r, sender |-> s, type |-> ty, is_read |-> read]
MixedBacklog ==
    <<NotifOf("alice", "bob", "question_upvoted", FALSE),
      NotifOf("bob", "alice", "answer_upvoted", FALSE),
      NotifOf("alice", "bob", "question_downvoted", TRUE),
      NotifOf("alice", "bob", "new_answer", FALSE)>>
LongBacklog ==
    MixedBacklog \o [i \in 1..PendingLimit |->
                        NotifOf("alice", "bob", "question_upvoted", FALSE)]
Backlogs == {<<>>, MixedBacklog, LongBacklog}

WsInit ==
    /\ notifications \in Backlogs
    /\ InitRest

\* The handler methods of each consumer class: the channel layer message
\* types it can dispatch.
Handlers(kind) ==
    CASE kind = "NotificationConsumer" ->
             {"new_notification", "reputation_update", "vote_update", "answer_update"}
      [] kind = "notifications.NotificationConsumer" -> {"notification_message"}
      [] kind = "QuestionConsumer" ->
             {"question_vote_update", "new_answer", "answer_accepted", "view_count_update"}
      [] kind = "AdminMonitoringConsumer" -> {"system_alert", "performance_warning"}
      [] OTHER -> {}

\* What the handler of a consumer class sends to its client for a channel
\* layer message it handles.
HandlerOutput(kind, msg) ==
    CASE kind = "notifications.NotificationConsumer" ->
             [type |-> "notification", notification |-> msg.notification]
      [] kind = "QuestionConsumer" /\ msg.type = "question_vote_update" ->
             [type |-> "vote_update", notification |-> 0]
      [] OTHER -> [type |-> msg.type, notification |-> msg.notification]

\* The open connections a group_send to group reaches.
Receivers(group) == {c \in Conns : <<group, c>> \in members /\ conns[c] # ""}

\* group_send(group, msg) with the consumers' dispatch: a consumer with a
\* handler for msg.type sends its output to the client; one without raises
\* ValueError (no handler), which ends the consumer and closes its socket
\* with 1011 without disconnect() being run.
Dispatch(group, msg) ==
    [sent |-> [c \in Conns |->
                  IF c \in Receivers(group) /\ msg.type \in Handlers(ckind[c])
                  THEN Append(sent[c], HandlerOutput(ckind[c], msg))
                  ELSE sent[c]],
     conns |-> [c \in Conns |->
                  IF c \in Receivers(group) /\ msg.type \notin Handlers(ckind[c])
                  THEN "" ELSE conns[c]],
     closeCode |-> [c \in Conns |->
                  IF c \in Receivers(group) /\ msg.type \notin Handlers(ckind[c])
                  THEN 1011 ELSE closeCode[c]]]

\* send_notification_to_user(user, notification) for the notification with
\* id nid.
send_notification_to_user(u, nid) ==
    Dispatch(notification_group(u), [type |-> "notification_message", notification |-> nid])

\* notifications.NotificationConsumer.connect: an AnonymousUser is closed;
\* a user's connection joins its personal group, is accepted and is sent the
\* unread count.
LegacyConnect(c, u) ==
    /\ Unused(c)
    /\ wsOps < MaxWsOps
    /\ wsOps' = wsOps + 1
    /\ IF ~is_authenticated(u)
       THEN /\ closeCode' = [closeCode EXCEPT ![c] = 1000]
            /\ UNCHANGED <<conns, members, ckind, sent>>
       ELSE /\ conns' = [conns EXCEPT ![c] = u]
            /\ ckind' = [ckind EXCEPT ![c] = "notifications.NotificationConsumer"]
            /\ members' = members \cup {<<notification_group(u), c>>}
            /\ sent' = [sent EXCEPT ![c] =
                   <<[type |-> "unread_count",
                      count |-> Cardinality(unread_notifications(notifications, u))]>>]
            /\ UNCHANGED closeCode
    /\ UNCHANGED voteVars
    /\ UNCHANGED ledgerVars
    /\ UNCHANGED eventVars

\* QuestionConsumer.connect for the question id q of the URL: any scope is
\* accepted; the connection joins the question's group and is sent the
\* question's data when the question exists.
QuestionConnect(c, u, q) ==
    /\ Unused(c)
    /\ wsOps < MaxWsOps
    /\ wsOps' = wsOps + 1
    /\ conns' = [conns EXCEPT ![c] = u]
    /\ ckind' = [ckind EXCEPT ![c] = "QuestionConsumer"]
    /\ members' = members \cup {<<question_group(q), c>>}
    /\ sent' = [sent EXCEPT ![c] =
           IF q \in Questions
           THEN <<[type |-> "question_data", id |-> q,
                   vote_score |-> vote_score(votes, cache, q)]>>
           ELSE <<>>]
    /\ cache' = IF q \in Questions THEN CacheAfterRead(votes, cache, q) ELSE cache
    /\ UNCHANGED closeCode
    /\ UNCHANGED <<votes, nextVoteId, notifications, pc, call, resp, ops, trace>>
    /\ UNCHANGED ledgerVars
    /\ UNCHANGED eventVars

\* AdminMonitoringConsumer.connect: a scope that is not authenticated or not
\* an admin user is closed with 4003; an admin's connection joins the admin
\* group, is accepted and is sent the system status.
AdminConnect(c, u) ==
    /\ Unused(c)
    /\ wsOps < MaxWsOps
    /\ wsOps' = wsOps + 1
    /\ IF ~is_authenticated(u) \/ ~is_admin_user(u)
       THEN /\ closeCode' = [closeCode EXCEPT ![c] = 4003]
            /\ UNCHANGED <<conns, members, ckind, sent>>
       ELSE /\ conns' = [conns EXCEPT ![c] = u]
            /\ ckind' = [ckind EXCEPT ![c] = "AdminMonitoringConsumer"]
            /\ members' = members \cup {<<admin_group, c>>}
            /\ sent' = [sent EXCEPT ![c] = <<[type |-> "system_status"]>>]
            /\ UNCHANGED closeCode
    /\ UNCHANGED voteVars
    /\ UNCHANGED ledgerVars
    /\ UNCHANGED eventVars

\* NotificationConsumer.handle_question_subscription: the message
\* {type: subscribe_to_question, question_id: q} on an open connection.
WsSubscribe(c, q) ==
    /\ conns[c] # "" /\ ckind[c] = "NotificationConsumer"
    /\ <<question_group(q), c>> \notin members
    /\ members' = members \cup {<<question_group(q), c>>}
    /\ sent' = [sent EXCEPT ![c] =
           Append(@, [type |-> "question_subscribed", question_id |-> q])]
    /\ UNCHANGED <<conns, wsOps, ckind, closeCode>>
    /\ UNCHANGED voteVars
    /\ UNCHANGED ledgerVars
    /\ UNCHANGED eventVars

\* QuestionVoteView.post by u with value v on q1, whole: toggle_vote, the
\* receiver with create_notification and its push, the response.
WsVote(u, v) ==
    /\ ops < MaxOps
    /\ LET t == "q1"
           w == ToggleWrite(votes, nextVoteId, FoundId(votes, u, t),
                            KeyValue(votes, u, t), u, t, v)
           ns == vote_created(notifications, w.created, u, t, v)
           d == send_notification_to_user(Author(t), Len(ns))
       IN /\ votes' = w.votes
          /\ nextVoteId' = w.nextId
          /\ notifications' = ns
          /\ IF ns # notifications
             THEN /\ sent' = d.sent
                  /\ conns' = d.conns
                  /\ closeCode' = d.closeCode
             ELSE UNCHANGED <<sent, conns, closeCode>>
          /\ resp' = [resp EXCEPT !["p1"] =
                 [status |-> 200, user |-> u, target |-> t, vote_value |-> w.ret,
                  vote_score |-> vote_score(w.votes, cache, t)]]
          /\ cache' = CacheAfterRead(w.votes, cache, t)
    /\ ops' = ops + 1
    /\ UNCHANGED <<pc, call, trace>>
    /\ UNCHANGED <<members, wsOps, ckind>>
    /\ UNCHANGED ledgerVars
    /\ UNCHANGED eventVars

\* ConnectSpec: the sockets over a notification table that holds a backlog.
ConnectNext ==
    \/ \E c \in Conns, u \in Users \cup {Anonymous} : WsConnect(c, u)
    \/ \E c \in Conns, u \in Users \cup {Anonymous} : LegacyConnect(c, u)
    \/ \E c \in Conns, u \in {"alice", Anonymous}, q \in QuestionIds :
           QuestionConnect(c, u, q)
    \/ \E c \in Conns, u \in {"alice", Anonymous} \cup AdminIdentities :
           AdminConnect(c, u)
    \/ \E c \in Conns, q \in QuestionIds : WsSubscribe(c, q)
    \/ \E c \in Conns : WsDisconnect(c)

ConnectSpec == WsInit /\ [][ConnectNext]_vars

\* WsSpec: the sockets and the question vote endpoint.
WsNext ==
    \/ \E c \in Conns, u \in Users : WsConnect(c, u)
    \/ \E c \in Conns, u \in Users : LegacyConnect(c, u)
    \/ \E c \in Conns, q \in QuestionIds : QuestionConnect(c, Anonymous, q)
    \/ \E c \in Conns, q \in QuestionIds : WsSubscribe(c, q)
    \/ \E c \in Conns : WsDisconnect(c)
    \/ \E u \in Users, v \in VOTE_CHOICES : WsVote(u, v)

WsSpec == Init /\ [][WsNext]_vars

\* --------------- EventSpec: the endpoints and model methods, one at a time
\* The database as an operation finds it.
DbState ==
    [votes |-> votes, notifications |-> notifications, answers |-> answers,
     question |-> question, reputation |-> reputation, ledger |-> ledger]

\* Notification ids a request can name: the rows of the table and one id
\* that no row has.
NotificationIds == 1..(Len(notifications) + 1)

\* create_notification: Notification.objects.create, then the push by
\* send_notification_to_user.
create_notification(ns, recipient, sender, ty) ==
    Append(ns, [recipient |-> recipient, sender |-> sender, type |-> ty,
                is_read |-> FALSE])

\* notify_new_answer(question, answer), answer by u.
notify_new_answerMut(ns, u) == create_notification(ns, Author("q1"), u, "new_answer")
notify_new_answer(ns, u) ==
    IF Author("q1") # u
    THEN create_notification(ns, Author("q1"), u, "new_answer")
    ELSE ns

\* answer_created (post_save of Answer).
answer_created(ns, created, u) == IF created THEN notify_new_answer(ns, u) ELSE ns

\* question_answer_accepted (post_save of Question) for the instance inst
\* saved with accepted answer a -> notify_answer_accepted.
question_answer_accepted(ns, inst, a) ==
    IF a # "" /\ inst.hasPrev /\ inst.prev # a
    THEN create_notification(ns, answers[a].author, Author("q1"), "answer_accepted")
    ELSE ns

\* track_accepted_answer_changes (post_save of Question, the receiver
\* connected last): the instance remembers the accepted answer the row has
\* after the save.
track_accepted_answer_changes(a) ==
    [held |-> TRUE, accepted_answer |-> a, hasPrev |-> TRUE, prev |-> a]

\* Answer.save of answer a with is_accepted = acc: an accepted answer first
\* clears is_accepted on the question's other answers.
Answer_save(tbl, a, acc) ==
    [b \in AnswerIds |->
        IF b = a THEN [tbl[b] EXCEPT !.is_accepted = acc]
        ELSE IF acc THEN [tbl[b] EXCEPT !.is_accepted = FALSE]
        ELSE tbl[b]]

\* A Question instance as the ORM loads it: no _previous_accepted_answer.
FreshInstance ==
    [held |-> TRUE, accepted_answer |-> question.accepted_answer,
     hasPrev |-> FALSE, prev |-> ""]

\* unread_notifications.update(is_read=True): the table afterwards.
update_is_readMut(ns, u) == [i \in DOMAIN ns |-> [ns[i] EXCEPT !.is_read = TRUE]]
update_is_read(ns, u) ==
    [i \in DOMAIN ns |->
        IF i \in unread_notifications(ns, u) THEN [ns[i] EXCEPT !.is_read = TRUE]
        ELSE ns[i]]

\* Notification.mark_as_read on row i.
mark_as_read(ns, i) == [ns EXCEPT ![i].is_read = TRUE]

\* QuestionVoteView.post / AnswerVoteView.post, whole: toggle_vote, the
\* receiver, the response. pushFails: group_send of the notification raises;
\* post_save is sent with Signal.send, so the exception leaves the view as a
\* 500 after the vote and the notification were stored.
VoteRequest(u, t, v, pushFails) ==
    /\ events < MaxEvents
    /\ LET w == ToggleWrite(votes, nextVoteId, FoundId(votes, u, t),
                            KeyValue(votes, u, t), u, t, v)
           ns == vote_created(notifications, w.created, u, t, v)
           raised == w.error \/ (pushFails /\ ns # notifications)
       IN /\ pushFails => ns # notifications
          /\ votes' = w.votes
          /\ nextVoteId' = w.nextId
          /\ notifications' = ns
          /\ cache' = IF raised THEN cache ELSE CacheAfterRead(w.votes, cache, t)
          /\ ev' = [kind |-> "vote", user |-> u, target |-> t, value |-> v,
                    status |-> IF raised THEN 500 ELSE 200,
                    pushFailed |-> pushFails, reply |-> "", before |-> DbState]
    /\ events' = events + 1
    /\ UNCHANGED <<pc, call, resp, ops, trace>>
    /\ UNCHANGED ledgerVars
    /\ UNCHANGED <<wsVars, answers, question, qinst>>

\* AnswerListCreateView.post by u: the answer a2 is created; answer_created
\* runs inside the save.
PostAnswer(u, pushFails) ==
    /\ events < MaxEvents
    /\ ~answers["a2"].exists
    /\ LET ns == answer_created(notifications, TRUE, u)
       IN /\ pushFails => ns # notifications
          /\ answers' = [answers EXCEPT !["a2"] =
                 [exists |-> TRUE, author |-> u, is_accepted |-> FALSE]]
          /\ notifications' = ns
          /\ ev' = [kind |-> "post_answer", user |-> u, target |-> "a2", value |-> 0,
                    status |-> IF pushFails THEN 500 ELSE 201,
                    pushFailed |-> pushFails, reply |-> "", before |-> DbState]
    /\ events' = events + 1
    /\ UNCHANGED <<votes, nextVoteId, cache, pc, call, resp, ops, trace>>
    /\ UNCHANGED ledgerVars
    /\ UNCHANGED <<wsVars, question, qinst>>

\* AnswerDetailView.put by the answer's author: the existing row is saved
\* again (created is false).
AnswerUpdate(a) ==
    /\ events < MaxEvents
    /\ answers[a].exists
    /\ answers' = Answer_save(answers, a, answers[a].is_accepted)
    /\ notifications' = answer_created(notifications, FALSE, answers[a].author)
    /\ ev' = [kind |-> "update_answer", user |-> answers[a].author, target |-> a,
              value |-> 0, status |-> 200, pushFailed |-> FALSE, reply |-> "",
              before |-> DbState]
    /\ events' = events + 1
    /\ UNCHANGED <<votes, nextVoteId, cache, pc, call, resp, ops, trace>>
    /\ UNCHANGED ledgerVars
    /\ UNCHANGED <<wsVars, question, qinst>>

\* AcceptAnswerView.post by u for answer a: 403 for another user than the
\* asker, 404 for no such answer; else the freshly loaded question is given
\* the answer and saved, and the two Question receivers run on it.
AcceptAnswerView(u, a) ==
    /\ events < MaxEvents
    /\ LET st == IF Author("q1") # u THEN 403
                 ELSE IF ~answers[a].exists THEN 404 ELSE 200
       IN /\ IF st = 200
             THEN /\ question' = [accepted_answer |-> a, is_answered |-> TRUE]
                  /\ notifications' =
                         question_answer_accepted(notifications, FreshInstance, a)
             ELSE UNCHANGED <<question, notifications>>
          /\ ev' = [kind |-> "accept_view", user |-> u, target |-> a, value |-> 0,
                    status |-> st, pushFailed |-> FALSE, reply |-> "",
                    before |-> DbState]
    /\ events' = events + 1
    /\ UNCHANGED <<votes, nextVoteId, cache, pc, call, resp, ops, trace>>
    /\ UNCHANGED ledgerVars
    /\ UNCHANGED <<wsVars, answers, qinst>>

\* Question.accept_answer(answer, user) on a Question instance: a freshly
\* loaded one, or the one the caller kept from its previous call. status is
\* 200 for a return, 400 for the ValidationError, 500 for an exception of
\* the INSERT of the ReputationTransaction (content_type_id is given the
\* answer's pk), which rolls the atomic block back; the instance keeps what
\* the call assigned to it.
accept_answer(a, u, fresh, insertFails) ==
    /\ events < MaxEvents
    /\ answers[a].exists
    /\ ~fresh => qinst.held
    /\ LET inst == IF fresh THEN FreshInstance ELSE qinst
           author == answers[a].author
           new == NewBalance(reputation[author], reputation[author], 15)
           ans1 == IF inst.accepted_answer # ""
                   THEN Answer_save(answers, inst.accepted_answer, FALSE)
                   ELSE answers
           st == IF Author("q1") # u THEN 400
                 ELSE IF insertFails \/ ~reputation_minimum_check(new) THEN 500
                 ELSE 200
       IN /\ insertFails => Author("q1") = u
          /\ IF st = 200
             THEN /\ answers' = Answer_save(ans1, a, TRUE)
                  /\ question' = [accepted_answer |-> a, is_answered |-> TRUE]
                  /\ notifications' = question_answer_accepted(notifications, inst, a)
                  /\ reputation' = [reputation EXCEPT ![author] = new]
                  /\ repWrites' = Append(repWrites, [user |-> author, value |-> new])
                  /\ ledger' = Append(ledger, [user |-> author, amount |-> 15,
                                               balance_after |-> new])
             ELSE UNCHANGED <<answers, question, notifications, reputation,
                              repWrites, ledger>>
          /\ IF st = 400
             THEN UNCHANGED <<published, sent>>
             ELSE /\ published' = Append(published,
                         [user_id |-> author, new_reputation |-> new, change |-> 15])
                  /\ sent' = GroupSend(sent, members, reputation_updates_group,
                         [type |-> "realtime_update", event_type |-> "reputation_changed",
                          user_id |-> author, new_reputation |-> new, change |-> 15])
          /\ qinst' = IF st = 400 THEN inst ELSE track_accepted_answer_changes(a)
          /\ ev' = [kind |-> "accept_answer", user |-> u, target |-> a, value |-> 0,
                    status |-> st, pushFailed |-> FALSE, reply |-> "",
                    before |-> DbState]
    /\ events' = events + 1
    /\ UNCHANGED <<votes, nextVoteId, cache, pc, call, resp, ops, trace>>
    /\ UNCHANGED <<lpc, tx, rowLock, txStarted, anyFail, lastError>>
    /\ UNCHANGED <<conns, members, wsOps, ckind, closeCode>>

\* MarkNotificationReadAPIView.post by u for notification id nid.
MarkReadHttp(u, nid) ==
    /\ events < MaxEvents
    /\ LET ok == nid \in DOMAIN notifications /\ notifications[nid].recipient = u
       IN /\ notifications' = IF ok THEN mark_as_read(notifications, nid)
                                    ELSE notifications
          /\ ev' = [kind |-> "mark_http", user |-> u, target |-> "", value |-> nid,
                    status |-> IF ok THEN 200 ELSE 404, pushFailed |-> FALSE,
                    reply |-> "", before |-> DbState]
    /\ events' = events + 1
    /\ UNCHANGED <<votes, nextVoteId, cache, pc, call, resp, ops, trace>>
    /\ UNCHANGED ledgerVars
    /\ UNCHANGED <<wsVars, answers, question, qinst>>

\* NotificationConsumer.handle_mark_notification_read on u's connection for
\* notification id nid; reply is the type of the message the handler sends
\* back, "" when it sends none. status 0: a socket message has no status.
MarkReadWs(u, nid) ==
    /\ events < MaxEvents
    /\ LET ok == nid \in DOMAIN notifications /\ notifications[nid].recipient = u
       IN /\ notifications' = IF ok THEN mark_as_read(notifications, nid)
                                    ELSE notifications
          /\ ev' = [kind |-> "mark_ws", user |-> u, target |-> "", value |-> nid,
                    status |-> 0, pushFailed |-> FALSE,
                    reply |-> IF ok THEN "notification_marked_read" ELSE "",
                    before |-> DbState]
    /\ events' = events + 1
    /\ UNCHANGED <<votes, nextVoteId, cache, pc, call, resp, ops, trace>>
    /\ UNCHANGED ledgerVars
    /\ UNCHANGED <<wsVars, answers, question, qinst>>

\* MarkAllReadAPIView.post by u: value is marked_read, the count update()
\* returns.
MarkAllRead(u) ==
    /\ events < MaxEvents
    /\ notifications' = update_is_read(notifications, u)
    /\ ev' = [kind |-> "mark_all", user |-> u, target |-> "",
              value |-> Cardinality(unread_notifications(notifications, u)),
              status |-> 200, pushFailed |-> FALSE, reply |-> "", before |-> DbState]
    /\ events' = events + 1
    /\ UNCHANGED <<votes, nextVoteId, cache, pc, call, resp, ops, trace>>
    /\ UNCHANGED ledgerVars
    /\ UNCHANGED <<wsVars, answers, question, qinst>>

EventNext ==
    \/ \E u \in Users, t \in Targets, v \in VOTE_CHOICES, f \in BOOLEAN :
           VoteRequest(u, t, v, f)
    \/ \E u \in Users, f \in BOOLEAN : PostAnswer(u, f)
    \/ \E a \in AnswerIds : AnswerUpdate(a)
    \/ \E u \in Users, a \in AnswerIds : AcceptAnswerView(u, a)
    \/ \E a \in AnswerIds, u \in Users, fresh \in BOOLEAN, f \in BOOLEAN :
           accept_answer(a, u, fresh, f)
    \/ \E u \in Users, nid \in NotificationIds : MarkReadHttp(u, nid)
    \/ \E u \in Users, nid \in NotificationIds : MarkReadWs(u, nid)
    \/ \E u \in Users : MarkAllRead(u)

EventSpec == Init /\ [][EventNext]_vars

\* ================================================================ claims
\* U's transactions, in creation order.
UserTxs(u) == SelectSeq(ledger, LAMBDA r : r.user = u)

RECURSIVE SumAmounts(_)
SumAmounts(s) == IF s = <<>> THEN 0 ELSE s[1].amount + SumAmounts(Tail(s))

\* The result of toggle_vote run alone on a vote s (NoVote: none).
SerialToggle(s, v) == IF s = v THEN NoVote ELSE v

\* A call of thread p leaves toggle_vote in this step.
Leaves(p) == pc[p] = "act" /\ pc'[p] # "act"

\* C1: in every reachable state there is at most one Vote row for each
\* (user, target) pair, whatever the interleaving of the toggle_vote calls.
C1_OneVotePerPair ==
    \A r1 \in votes, r2 \in votes :
        (r1.user = r2.user /\ r1.target = r2.target) => r1 = r2

\* C1 witness: two calls raced on a pair, the constraint refused the second
\* INSERT and the pair has its one row.
C1_Witness ==
    \E p \in Procs :
        /\ resp[p].status = 500
        /\ Cardinality(VoteRows(votes, resp[p].user, resp[p].target)) = 1

\* C2 (as claimed): for every user the balance_after values of the user's
\* transactions, in creation order, are the prefix sums of the amounts from
\* the reputation before the first one; checked once the creations have
\* ended, none having failed.
C2_PrefixSums ==
    (~anyFail /\ \A p \in Procs : lpc[p] \in {"idle", "loaded"}) =>
        \A u \in Users :
            LET s == UserTxs(u)
            IN \A n \in 1..Len(s) :
                   s[n].balance_after =
                       (IF n = 1 THEN InitRep ELSE s[n - 1].balance_after)
                       + s[n].amount

\* C3 (as claimed): once the creations have ended, none having failed, the
\* stored reputation is the initial one plus every amount: no update is lost.
\* (Stated for amounts whose sum stays above the floor, which creations run
\* one after the other would all have accepted.)
C3_NoLostUpdate ==
    (~anyFail /\ \A p \in Procs : lpc[p] \in {"idle", "loaded"}) =>
        \A u \in Users :
            InitRep + SumAmounts(UserTxs(u)) >= RepFloor
                => reputation[u] = InitRep + SumAmounts(UserTxs(u))

\* C4 (as claimed): outside a running save(), the committed writes of a
\* user's reputation and the user's persisted transaction rows correspond
\* one to one: a write of value x for each row with balance_after x.
C4_AllOrNothing ==
    (\A p \in Procs : lpc[p] \in {"idle", "loaded"}) =>
        \A w \in {repWrites[i] : i \in DOMAIN repWrites} :
            Cardinality({i \in DOMAIN repWrites : repWrites[i] = w}) =
            Cardinality({i \in DOMAIN ledger :
                            ledger[i].user = w.user
                            /\ ledger[i].balance_after = w.value})

\* C5 (as claimed): when exactly two calls by one user on one target
\* overlapped, the vote the second one to end leaves is the vote that the
\* two calls, run one after the other in some order, leave.
C5_Serialized ==
    [][\A p \in Procs :
          (/\ Leaves(p)
           /\ call[p].cnt = 2
           /\ ~SameKeyInFlight(OtherProc(p), call[p].user, call[p].target))
          => KeyValue(votes', call[p].user, call[p].target) \in
                 {SerialToggle(SerialToggle(call[p].base, call[p].value),
                               call[p].other),
                  SerialToggle(SerialToggle(call[p].base, call[p].other),
                               call[p].value)}]_vars

\* C6 (as claimed): no vote request ends in an error: every call returns a
\* vote or None.
C6_NeverSurfaced == \A p \in Procs : resp[p].status # 500

\* C7 (as claimed): a vote of a user on the user's own content is refused:
\* it is answered with an error and leaves no Vote row and no transaction.
C7_SelfVoteFails ==
    /\ \A r \in votes : ~validate_vote_eligibility(r.user, r.target)
    /\ \A p \in Procs :
           validate_vote_eligibility(resp[p].user, resp[p].target)
               => resp[p].status \notin {0, 200}
    /\ ledger = <<>>

\* Two calls in a row, both toggle_vote(u, t, .) and neither raising.
TwoToggles ==
    /\ Len(trace) = 2
    /\ trace[1].kind = "toggle" /\ trace[2].kind = "toggle"
    /\ trace[1].user = trace[2].user /\ trace[1].target = trace[2].target
    /\ ~trace[1].error /\ ~trace[2].error

C9_FlipInPlace ==
    [][\A p \in Procs :
          (/\ Leaves(p)
           /\ call[p].found # 0
           /\ call[p].foundValue # call[p].value
           /\ \E r \in votes : r.id = call[p].found)
          => /\ pc'[p] = "respond"
             /\ call'[p].ret = call[p].value
             /\ VoteRows(votes', call[p].user, call[p].target) =
                    {[id |-> call[p].found, user |-> call[p].user,
                      target |-> call[p].target, value |-> call[p].value]}]_vars

\* C9 witness: a flip has been written and is about to be answered.
C9_Witness ==
    \E p \in Procs :
        /\ pc[p] = "respond"
        /\ call[p].found # 0
        /\ call[p].foundValue = -call[p].value
        /\ call[p].ret = call[p].value
        /\ KeyValue(votes, call[p].user, call[p].target) = call[p].value

\* The credit an upvote gives the author of t and the penalty of a downvote.
UpvoteCredit(t) == IF t \in Answers THEN AnswerUpvote ELSE QuestionUpvote
DownvotePenalty(t) == IF t \in Answers THEN AnswerDownvote ELSE QuestionDownvote

\* C10 (as claimed): after toggle(U,T,+1) then toggle(U,T,-1) on another
\* user's content the ledger holds, for T's author, transactions of the flip
\* whose amounts sum to the upvote credit removed plus the downvote penalty.
C10_FlipNetsLedger ==
    (/\ TwoToggles
     /\ trace[1].user # Author(trace[1].target)
     /\ trace[1].before = NoVote
     /\ trace[1].value = 1 /\ trace[2].value = -1)
        => LET t == trace[2].target
               new == SelectSeq(SubSeq(ledger, trace[2].txBefore + 1, Len(ledger)),
                                LAMBDA r : r.user = Author(t))
           IN /\ new # <<>>
              /\ SumAmounts(new) = DownvotePenalty(t) - UpvoteCredit(t)

\* C12 (as claimed): when the save() that creates a ReputationTransaction
\* for user B publishes its event, every connection open on B's personal
\* topic is sent a reputation_update message carrying the new reputation and
\* the change, and the connections of other users are sent nothing.
C12_PersonalTopicGetsUpdate ==
    [][Len(published') > Len(published) =>
          LET e == published'[Len(published')]
          IN \A c \in Conns :
                IF conns[c] = e.user_id
                THEN /\ Len(sent'[c]) = Len(sent[c]) + 1
                     /\ sent'[c][Len(sent'[c])].type = "reputation_update"
                     /\ sent'[c][Len(sent'[c])].new_reputation = e.new_reputation
                     /\ sent'[c][Len(sent'[c])].change = e.change
                ELSE sent'[c] = sent[c]]_vars

\* C13 (as claimed): every published reputation_changed event has its
\* transaction row in the table.
C13_PublishedAfterPersisted ==
    \A i \in DOMAIN published :
        \E j \in DOMAIN ledger :
            /\ ledger[j].user = published[i].user_id
            /\ ledger[j].amount = published[i].change
            /\ ledger[j].balance_after = published[i].new_reputation

\* C14: the stored reputation never is below -1000. A creation whose
\* UPDATE would store a value below -1000 ends there with IntegrityError and
\* leaves the stored reputations and the transaction table as they were; a
\* creation that goes on stores the instance's reputation plus the amount,
\* unclamped, and that value is at least -1000.
C14_FloorRejects ==
    [][/\ \A u \in Users : reputation'[u] >= RepFloor
       /\ \A p \in Procs :
             /\ (lpc[p] = "loaded" /\ lpc'[p] = "idle") =>
                   /\ \E a \in Amounts : tx[p].local + a < RepFloor
                   /\ lastError' = "IntegrityError"
                   /\ reputation' = reputation
                   /\ ledger' = ledger
             /\ (lpc[p] = "loaded" /\ lpc'[p] = "publish") =>
                   /\ tx'[p].local = tx[p].local + tx'[p].amount
                   /\ tx'[p].local >= RepFloor]_vars

\* C14 witness: a user stands at the floor after a committed -1000, and the
\* next creation for that user was refused with IntegrityError.
C14_Witness ==
    /\ lastError = "IntegrityError"
    /\ \E u \in Users : reputation[u] = RepFloor /\ Len(UserTxs(u)) = 1
    /\ \A p \in Procs : lpc[p] = "idle"

\* C19: the write of a vote request by the target's author creates no
\* notification; the write of a request by another user creates none or
\* one, and that one is unread, for the target's author, from the voter, of
\* the type named after the target kind and the requested value. No other
\* step of a vote request creates or changes a notification.
C19_VoteNotifications ==
    [][IF \E p \in Procs : Leaves(p)
       THEN \A p \in Procs : Leaves(p) =>
               LET c == call[p]
                   kind == IF c.target \in Questions THEN "question" ELSE "answer"
                   ty == CASE kind = "question" /\ c.value = 1 -> "question_upvoted"
                           [] kind = "question" /\ c.value = -1 -> "question_downvoted"
                           [] kind = "answer" /\ c.value = 1 -> "answer_upvoted"
                           [] kind = "answer" /\ c.value = -1 -> "answer_downvoted"
               IN \/ notifications' = notifications
                  \/ /\ Author(c.target) # c.user
                     /\ notifications' = Append(notifications,
                            [recipient |-> Author(c.target), sender |-> c.user,
                             type |-> ty, is_read |-> FALSE])
       ELSE notifications' = notifications]_vars

\* C19 witness: a user's vote on the user's own content is stored, another
\* user's vote has notified an author, and no notification has its
\* recipient as sender.
C19_Witness ==
    /\ \E r \in votes : r.user = Author(r.target)
    /\ Len(notifications) >= 1
    /\ \A i \in DOMAIN notifications :
          notifications[i].sender # notifications[i].recipient

\* The notifications of type ty in a table.
OfType(ns, ty) == {i \in DOMAIN ns : ns[i].type = ty}

\* C11 (as claimed): after a vote request in which A casts an upvote on an
\* answer of another user B, the transaction table has exactly one more
\* row, for B, of +10 with balance_after = B's previous reputation + 10,
\* and the notification table exactly one more row, answer_upvoted, for B,
\* from A.
C11_UpvoteLedgerAndNotification ==
    (/\ ev.kind = "vote" /\ ev.status = 200
     /\ ev.target \in Answers /\ ev.value = 1
     /\ ev.user # Author(ev.target)
     /\ KeyValue(ev.before.votes, ev.user, ev.target) = NoVote) =>
        LET B == Author(ev.target)
        IN /\ ledger = Append(ev.before.ledger,
                  [user |-> B, amount |-> AnswerUpvote,
                   balance_after |-> ev.before.reputation[B] + AnswerUpvote])
           /\ notifications = Append(ev.before.notifications,
                  [recipient |-> B, sender |-> ev.user, type |-> "answer_upvoted",
                   is_read |-> FALSE])

\* C15 (as claimed): a vote or answer request whose notification push
\* failed still answers without an error, its row is stored, and the
\* transactions committed before it are all still there.
C15_HandlerFailureIsolated ==
    (ev.kind \in {"vote", "post_answer"} /\ ev.pushFailed) =>
        /\ ev.status \in {200, 201}
        /\ ev.kind = "vote" => KeyValue(votes, ev.user, ev.target) = ev.value
        /\ ev.kind = "post_answer" => answers[ev.target].exists
        /\ Len(ledger) >= Len(ev.before.ledger)
        /\ SubSeq(ledger, 1, Len(ev.before.ledger)) = ev.before.ledger

\* C16 (as claimed): an accept-answer request or Question.accept_answer
\* call that went through for answer X has created exactly one
\* answer_accepted notification for X's author if the question's accepted
\* answer was not X before, and no notification if it was X.
C16_AcceptNotifies ==
    (ev.kind \in {"accept_view", "accept_answer"} /\ ev.status = 200) =>
        IF ev.before.question.accepted_answer # ev.target
        THEN notifications = Append(ev.before.notifications,
                 [recipient |-> answers[ev.target].author, sender |-> Author("q1"),
                  type |-> "answer_accepted", is_read |-> FALSE])
        ELSE notifications = ev.before.notifications

\* C17 (as claimed): an operation that moved the question's accepted-answer
\* reference to answer X has added exactly one +15 transaction for X's
\* author, raising the author's reputation by 15; an accept operation that
\* left the reference where it was has added no transaction and changed no
\* reputation.
C17_OneAwardPerTransition ==
    (ev.kind \in {"accept_view", "accept_answer"}) =>
        LET X == question.accepted_answer
        IN IF X # ev.before.question.accepted_answer
           THEN /\ ledger = Append(ev.before.ledger,
                       [user |-> answers[X].author, amount |-> 15,
                        balance_after |-> ev.before.reputation[answers[X].author] + 15])
                /\ reputation = [ev.before.reputation EXCEPT
                                    ![answers[X].author] = @ + 15]
           ELSE /\ ledger = ev.before.ledger
                /\ reputation = ev.before.reputation

\* C18: posting an answer creates exactly one unread new_answer
\* notification, for the question's author from the answer's author, when
\* the two differ, and none when they are the same user; saving an existing
\* answer, and every other operation, creates no new_answer notification.
C18_NewAnswerNotification ==
    /\ ev.kind = "post_answer" =>
          IF ev.user # Author("q1")
          THEN notifications = Append(ev.before.notifications,
                   [recipient |-> Author("q1"), sender |-> ev.user,
                    type |-> "new_answer", is_read |-> FALSE])
          ELSE notifications = ev.before.notifications
    /\ ev.kind = "update_answer" => notifications = ev.before.notifications
    /\ ev.kind \notin {"none", "post_answer"} =>
          Cardinality(OfType(notifications, "new_answer")) =
              Cardinality(OfType(ev.before.notifications, "new_answer"))

\* C18 witness: bob's answer a2 was posted, which notified alice, and then
\* saved again, which created nothing.
C18_Witness ==
    /\ ev.kind = "update_answer" /\ ev.target = "a2"
    /\ answers["a2"].author # Author("q1")
    /\ Cardinality(OfType(notifications, "new_answer")) = 1

\* C20 (as claimed): a mark-read for an id that is no notification of the
\* caller leaves every notification as it was and is answered with the
\* not-found error: status 404 over HTTP, an error message over the socket.
C20_MarkReadNotFound ==
    (/\ ev.kind \in {"mark_http", "mark_ws"}
     /\ ~(/\ ev.value \in DOMAIN ev.before.notifications
          /\ ev.before.notifications[ev.value].recipient = ev.user)) =>
        /\ notifications = ev.before.notifications
        /\ ev.kind = "mark_http" => ev.status = 404
        /\ ev.kind = "mark_ws" => ev.reply = "error"

\* C21: a mark-all-read request of R returns the number of R's
\* notifications that were unread before it (0 when there were none);
\* after it the unread query of R counts 0, every notification of another
\* recipient is as it was, and R's rows differ from before in is_read only.
C21_MarkAllRead ==
    ev.kind = "mark_all" =>
        LET was == ev.before.notifications
        IN /\ ev.value = Cardinality({i \in DOMAIN was :
                              was[i].recipient = ev.user /\ ~was[i].is_read})
           /\ Cardinality({i \in DOMAIN notifications :
                   notifications[i].recipient = ev.user /\ ~notifications[i].is_read}) = 0
           /\ Len(notifications) = Len(was)
           /\ \A i \in DOMAIN was :
                 IF was[i].recipient = ev.user
                 THEN notifications[i] = [was[i] EXCEPT !.is_read = TRUE]
                 ELSE notifications[i] = was[i]

\* C21 witness: a mark-all-read that marked at least one notification
\* while another recipient had an unread one.
C21_Witness ==
    /\ ev.kind = "mark_all" /\ ev.value >= 1
    /\ \E i \in DOMAIN notifications :
          notifications[i].recipient # ev.user /\ ~notifications[i].is_read

\* The groups connection c is a member of.
GroupsOf(c) == {m[1] : m \in {x \in members : x[2] = c}}

\* C22 (as claimed): a connection closed through disconnect is a member of
\* no group.
C22_DisconnectReleasesAll ==
    \A c \in Conns :
        (conns[c] = "" /\ ckind[c] # "" /\ closeCode[c] = 1000) => GroupsOf(c) = {}

C24_AdminTopicGated ==
    /\ \A m \in members :
          m[1] = admin_group =>
              /\ conns[m[2]] \notin {"", Anonymous}
              /\ role(conns[m[2]]) = "admin"
    /\ \A c \in Conns :
          /\ closeCode[c] = 4003 =>
                conns[c] = "" /\ sent[c] = <<>> /\ GroupsOf(c) = {}
          /\ (conns[c] # "" /\ ckind[c] = "AdminMonitoringConsumer") =>
                conns[c] # Anonymous /\ role(conns[c]) = "admin"

\* C24 witness: an admin is connected to the admin socket and an attempt of
\* another identity was refused.
C24_Witness ==
    /\ \E c \in Conns : admin_group \in GroupsOf(c) /\ conns[c] # ""
    /\ \E d \in Conns : closeCode[d] = 4003

\* The elements of a sequence.
Range(l) == {l[i] : i \in DOMAIN l}

C25_QuestionTopicVoteUpdate ==
    [][ops' # ops =>
          \A c \in Conns :
              (conns[c] # "" /\ ckind[c] = "QuestionConsumer") =>
                  IF question_group("q1") \in GroupsOf(c)
                  THEN /\ Len(sent'[c]) = Len(sent[c]) + 1
                       /\ sent'[c][Len(sent'[c])].type = "vote_update"
                  ELSE sent'[c] = sent[c]]_vars

\* C26 (as claimed): the creation of a notification for user R sends it,
\* once, as a new_notification message (notification for the consumer of
\* notifications/consumers.py) to every connection open for R in R's
\* personal group, and the connection is open afterwards.
C26_NotificationPushed ==
    [][Len(notifications') > Len(notifications) =>
          LET nid == Len(notifications')
              R == notifications'[nid].recipient
          IN \A c \in Conns :
                (conns[c] = R /\ notification_group(R) \in GroupsOf(c)) =>
                    /\ conns'[c] = R
                    /\ Len(sent'[c]) = Len(sent[c]) + 1
                    /\ sent'[c][Len(sent'[c])].type \in {"new_notification", "notification"}
                    /\ sent'[c][Len(sent'[c])].notification = nid]_vars

\* C29 (as claimed): the vote score a call or a reader obtained last for a
\* question (scoreAfter: what the view's response and the question snapshot
\* report) equals the sum of the values of the Vote rows stored for that
\* question.
C29_ScoreIsSumOfRows ==
    (trace # <<>> /\ trace[Len(trace)].target \in Questions) =>
        LET e == trace[Len(trace)]
            rows == {r \in votes : r.target = e.target}
        IN e.scoreAfter = Cardinality({r \in rows : r.value = 1})
                          - Cardinality({r \in rows : r.value = -1})

\* C30 (as claimed): at most one answer is accepted, the question's
\* accepted_answer is X exactly when X is an answer with is_accepted set,
\* and is_answered is true exactly when accepted_answer is not null.
C30_AcceptanceConsistent ==
    /\ Cardinality({a \in AnswerIds : answers[a].exists /\ answers[a].is_accepted}) <= 1
    /\ \A X \in AnswerIds :
          question.accepted_answer = X <=> (answers[X].exists /\ answers[X].is_accepted)
    /\ question.is_answered <=> question.accepted_answer # ""
====
